---- MODULE Spec2Model ----
(***************************************************************************)
(* A model of the demonstration scripts of the AIExamples repository.      *)
(* Every script is a standalone program: one run executes exactly one of   *)
(* them, so the initial state chooses the script and only that script's    *)
(* actions are ever enabled afterwards.                                    *)
(*                                                                         *)
(*   streaming_persistenc.py  synchronous / asynchronous file persistence  *)
(*   hotel_booking.py         travel assistant (per-user conversation)     *)
(*   context.py               customer-service turn counter                *)
(*   basic_chatbot.py, chatbot-with-memory.py, chatbot-with-internet.py    *)
(*                            the interactive chat loops                   *)
(*   langgraph_2.py           the agent's take_action node                 *)
(*                                                                         *)
(* A file is modelled as the sequence of chunks written to it; the chunk   *)
(* "\n" is the line terminator.  Standard output is the sequence of        *)
(* printed items.  A hosted-model reply is a nondeterministic choice from  *)
(* a small set of replies.                                                 *)
(***************************************************************************)
EXTENDS Integers, Sequences, FiniteSets, TLC

VARIABLES
    script,      \* which script this run executes
    pc,          \* position of the running script
    out,         \* what the script has printed so far
    handled,     \* the catch-all handlers that ran: what each did
    files,       \* persistence demo: path -> content (chunks)
    files0,      \* persistence demo: the content of the files at start-up
    inflight,    \* persistence demo: saves whose file is open
    idx,         \* persistence demo: the generator's loop variable i
    message,     \* persistence demo: the message being processed
    exit_code,   \* persistence demo: what main returned (-1 before it did)
    state,       \* customer service: the AgentState dictionary
    last_input,  \* customer service: input_message of the last call
    calls,       \* customer service: process_message calls that returned
    attempts,    \* customer service: process_message calls made
    remaining,   \* customer service: messages run_conversation has left
    users,       \* travel assistant: user id -> UserState
    call,        \* travel assistant: the process_message call in progress
    ret,         \* travel assistant: what the last call returned
    ncalls,      \* travel assistant: process_message calls made
    tool_calls,  \* agent: the tool calls take_action has left to run
    results,     \* agent: the ToolMessages take_action has built
    max_turns,   \* ReAct loop: the max_turns query was called with
    turn,        \* ReAct loop: the loop variable i of the next iteration
    next_prompt, \* ReAct loop: the prompt of the next model call
    bot_messages, \* ReAct loop: RestaurantAgent.messages
    ran          \* ReAct loop: the actions run so far, with their inputs

persist_vars == <<files, files0, inflight, idx, message, exit_code>>
context_vars == <<state, last_input, calls, attempts, remaining>>
travel_vars == <<users, call, ret, ncalls>>
agent_vars == <<tool_calls, results>>
react_vars == <<max_turns, turn, next_prompt, bot_messages, ran>>
not_persist == <<script, context_vars, travel_vars, agent_vars, react_vars>>
not_context == <<script, handled, persist_vars, travel_vars, agent_vars, react_vars>>
not_travel == <<script, persist_vars, context_vars, agent_vars, react_vars>>
not_agent == <<script, persist_vars, context_vars, travel_vars, react_vars>>
not_react == <<script, handled, persist_vars, context_vars, travel_vars, agent_vars>>
only_console ==
    <<script, persist_vars, context_vars, travel_vars, agent_vars, react_vars>>
vars ==
    <<script, pc, out, handled, persist_vars, context_vars, travel_vars, agent_vars,
      react_vars>>

NL == "\n"

(***************************************************************************)
(* Bounds of the model.                                                    *)
(***************************************************************************)
MaxOldLines == 2      \* lines an earlier run left in a file
MaxConvLen == 12      \* messages handed to run_conversation
MaxCalls == 22        \* direct calls of process_message by one client
MaxVaried == 3        \* of which the first few vary in input and outcome
MaxMessages == 3      \* messages sent to the travel assistant
MaxChatTurns == 3     \* lines typed into a chat loop
MaxToolCalls == 2     \* tool calls in the message take_action handles
MaxQueryTurns == 5    \* the largest max_turns query is called with

(***************************************************************************)
(* streaming_persistenc.py                                                 *)
(***************************************************************************)
sync_path == "sync_data.txt"
async_path == "async_data.txt"
Paths == {sync_path, async_path}

SyncStreamLen == 10
AsyncStreamLen == 10

RECURSIVE SplitFrom(_, _, _)
\* The lines of a content: the chunks between line terminators, joined; a
\* trailing piece without terminator is a line too (as str.splitlines).
SplitFrom(content, k, cur) ==
    IF k > Len(content)
    THEN IF cur = "" THEN <<>> ELSE <<cur>>
    ELSE IF content[k] = NL
         THEN <<cur>> \o SplitFrom(content, k + 1, "")
         ELSE SplitFrom(content, k + 1, cur \o content[k])

Lines(content) == SplitFrom(content, 1, "")

\* f"Message {i}"
GenerateMessage(i) == "Message " \o ToString(i)

\* What one run's loop leaves in a file: the first n messages, one per line.
RECURSIVE RunContent(_)
RunContent(n) ==
    IF n = 0 THEN <<>> ELSE RunContent(n - 1) \o <<GenerateMessage(n - 1), NL>>

\* open(path, 'a'): the file is open for appending data.
OpenAppend(path, data) ==
    inflight' = Append(inflight, [path |-> path, data |-> data])

\* The write with the file opened in mode 'w' instead of 'a'.
WriteTruncate(h) ==
    /\ files' = [files EXCEPT ![h.path] = <<h.data, NL>>]
    /\ inflight' = SelectSeq(inflight, LAMBDA g : g # h)
\* The write with the new line put before the old content.
WritePrepend(h) ==
    /\ files' = [files EXCEPT ![h.path] = <<h.data, NL>> \o @]
    /\ inflight' = SelectSeq(inflight, LAMBDA g : g # h)
\* file.write(f"{data}\n") and the close on leaving the with block.
WriteClose(h) ==
    /\ files' = [files EXCEPT ![h.path] = @ \o <<h.data, NL>>]
    /\ inflight' = SelectSeq(inflight, LAMBDA g : g # h)

\* The write raised: the with block closes the file, nothing was appended.
FailClose(h) ==
    /\ files' = files
    /\ inflight' = SelectSeq(inflight, LAMBDA g : g # h)

\* print(...): a printed line is the tuple of its pieces
Stdout(item) == out' = Append(out, <<item>>)

\* StorageManager.__init__: the two storages and their files.
sync_storage == sync_path
async_storage == async_path

Handled(handler, printed, outcome) ==
    handled' = Append(handled,
                      [handler |-> handler, printed |-> printed, outcome |-> outcome])

\* main creates the manager and calls synchronous_stream_and_persist, which
\* prints its banner and creates the generator.
SyncBegin ==
    /\ script = "streaming_persistenc" /\ pc = "main"
    /\ Stdout("\nSynchronous Streaming:")
    /\ idx' = 0
    /\ pc' = "sync_next"
    /\ UNCHANGED <<not_persist, handled, files, files0, inflight, message, exit_code>>

\* The loop with a generator that yields every other message.
SyncNextSkip ==
    /\ pc = "sync_next" /\ idx < SyncStreamLen
    /\ message' = GenerateMessage(idx)
    /\ idx' = idx + 2
    /\ Stdout("Processing: " \o message')
    /\ pc' = "sync_open"
    /\ UNCHANGED <<not_persist, handled, files, files0, inflight, exit_code>>
\* for message in stream.generate_data_stream(): print(f"Processing: ...")
SyncNext ==
    /\ pc = "sync_next" /\ idx < SyncStreamLen
    /\ message' = GenerateMessage(idx)
    /\ idx' = idx + 1
    /\ Stdout("Processing: " \o message')
    /\ pc' = "sync_open"
    /\ UNCHANGED <<not_persist, handled, files, files0, inflight, exit_code>>

\* The generator is exhausted: the loop ends and the function returns.
SyncFinish ==
    /\ pc = "sync_next" /\ idx >= SyncStreamLen
    /\ Stdout("Data saved synchronously!")
    /\ pc' = "async_begin"
    /\ UNCHANGED <<not_persist, handled, persist_vars>>

\* self.sync_storage.save(message): the open succeeds ...
SyncOpen ==
    /\ pc = "sync_open"
    /\ OpenAppend(sync_storage, message)
    /\ pc' = "sync_write"
    /\ UNCHANGED <<not_persist, out, handled, files, files0, idx, message, exit_code>>

\* ... or raises (OSError).
SyncOpenFail ==
    /\ pc = "sync_open"
    /\ pc' = "sync_except"
    /\ UNCHANGED <<not_persist, out, handled, persist_vars>>

SyncWrite ==
    /\ pc = "sync_write"
    /\ \E k \in 1..Len(inflight) : WriteClose(inflight[k])
    /\ pc' = "sync_next"
    /\ UNCHANGED <<not_persist, out, handled, files0, idx, message, exit_code>>

SyncWriteFail ==
    /\ pc = "sync_write"
    /\ \E k \in 1..Len(inflight) : FailClose(inflight[k])
    /\ pc' = "sync_except"
    /\ UNCHANGED <<not_persist, out, handled, files0, idx, message, exit_code>>

\* The handler without its raise.
SyncExceptSwallow ==
    /\ pc = "sync_except"
    /\ Stdout("Error in synchronous processing")
    /\ Handled("synchronous_stream_and_persist", TRUE, "return_none")
    /\ pc' = "async_begin"
    /\ UNCHANGED <<not_persist, persist_vars>>
\* except Exception as e: print(...); raise
SyncExcept ==
    /\ pc = "sync_except"
    /\ Stdout("Error in synchronous processing")
    /\ Handled("synchronous_stream_and_persist", TRUE, "reraise")
    /\ pc' = "main_except"
    /\ UNCHANGED <<not_persist, persist_vars>>

\* await storage_manager.asynchronous_stream_and_persist()
AsyncBegin ==
    /\ pc = "async_begin"
    /\ Stdout("\nAsynchronous Streaming:")
    /\ idx' = 0
    /\ pc' = "async_gen"
    /\ UNCHANGED <<not_persist, handled, files, files0, inflight, message, exit_code>>

\* generate_async_data_stream: await asyncio.sleep(0.1) inside the loop
AsyncGenSleep ==
    /\ pc = "async_gen" /\ idx < AsyncStreamLen
    /\ pc' = "async_yield"
    /\ UNCHANGED <<not_persist, out, handled, persist_vars>>

\* yield f"Message {i}"; print(f"Processing: ..."); await asyncio.sleep(0.5)
AsyncYield ==
    /\ pc = "async_yield"
    /\ message' = GenerateMessage(idx)
    /\ idx' = idx + 1
    /\ Stdout("Processing: " \o message')
    /\ pc' = "async_io_sleep"
    /\ UNCHANGED <<not_persist, handled, files, files0, inflight, exit_code>>

AsyncFinish ==
    /\ pc = "async_gen" /\ idx >= AsyncStreamLen
    /\ Stdout("Data saved asynchronously!")
    /\ pc' = "main_return"
    /\ UNCHANGED <<not_persist, handled, persist_vars>>

\* The save started without being awaited.
AsyncOpenNoAwait ==
    /\ pc = "async_io_sleep"
    /\ OpenAppend(async_storage, message)
    /\ pc' = "async_gen"
    /\ UNCHANGED <<not_persist, out, handled, files, files0, idx, message, exit_code>>
\* The sleep is over; await self.async_storage.async_save(message) opens.
AsyncOpen ==
    /\ pc = "async_io_sleep"
    /\ OpenAppend(async_storage, message)
    /\ pc' = "async_write"
    /\ UNCHANGED <<not_persist, out, handled, files, files0, idx, message, exit_code>>

AsyncOpenFail ==
    /\ pc = "async_io_sleep"
    /\ pc' = "async_except"
    /\ UNCHANGED <<not_persist, out, handled, persist_vars>>

AsyncWrite ==
    /\ pc = "async_write"
    /\ \E k \in 1..Len(inflight) : WriteClose(inflight[k])
    /\ pc' = "async_gen"
    /\ UNCHANGED <<not_persist, out, handled, files0, idx, message, exit_code>>

AsyncWriteFail ==
    /\ pc = "async_write"
    /\ \E k \in 1..Len(inflight) : FailClose(inflight[k])
    /\ pc' = "async_except"
    /\ UNCHANGED <<not_persist, out, handled, files0, idx, message, exit_code>>

AsyncExcept ==
    /\ pc = "async_except"
    /\ Stdout("Error in asynchronous processing")
    /\ Handled("asynchronous_stream_and_persist", TRUE, "reraise")
    /\ pc' = "main_except"
    /\ UNCHANGED <<not_persist, persist_vars>>

\* The handler returning 0.
MainExceptZero ==
    /\ pc = "main_except"
    /\ Stdout("Error in main execution")
    /\ Handled("main", TRUE, "return_exit_code")
    /\ exit_code' = 0
    /\ pc' = "exited"
    /\ UNCHANGED <<not_persist, files, files0, inflight, idx, message>>
\* main: except Exception as e: print(...); return 1
MainExcept ==
    /\ pc = "main_except"
    /\ Stdout("Error in main execution")
    /\ Handled("main", TRUE, "return_exit_code")
    /\ exit_code' = 1
    /\ pc' = "exited"
    /\ UNCHANGED <<not_persist, files, files0, inflight, idx, message>>

\* main: return 0
MainReturn ==
    /\ pc = "main_return"
    /\ exit_code' = 0
    /\ pc' = "exited"
    /\ UNCHANGED <<not_persist, out, handled, files, files0, inflight, idx, message>>

PersistNext ==
    \/ SyncBegin \/ SyncNext \/ SyncFinish
    \/ SyncOpen \/ SyncOpenFail \/ SyncWrite \/ SyncWriteFail \/ SyncExcept
    \/ AsyncBegin \/ AsyncGenSleep \/ AsyncYield \/ AsyncFinish
    \/ AsyncOpen \/ AsyncOpenFail \/ AsyncWrite \/ AsyncWriteFail \/ AsyncExcept
    \/ MainExcept \/ MainReturn


(***************************************************************************)
(* context.py                                                              *)
(*                                                                         *)
(* A message is a sequence of characters.  satisfaction_score is a float   *)
(* that only ever holds multiples of 0.5: the model stores twice its       *)
(* value, so 10.0 is 20 and turns * 0.5 is turns.                          *)
(***************************************************************************)
UpperCase == <<"A", "B", "C", "D", "E", "F", "G", "H", "I", "J", "K", "L", "M",
               "N", "O", "P", "Q", "R", "S", "T", "U", "V", "W", "X", "Y", "Z">>
LowerCase == <<"a", "b", "c", "d", "e", "f", "g", "h", "i", "j", "k", "l", "m",
               "n", "o", "p", "q", "r", "s", "t", "u", "v", "w", "x", "y", "z">>

\* str.lower()
LowerChar(c) ==
    IF \E i \in 1..Len(UpperCase) : UpperCase[i] = c
    THEN LowerCase[CHOOSE i \in 1..Len(UpperCase) : UpperCase[i] = c]
    ELSE c
Lower(s) == [i \in 1..Len(s) |-> LowerChar(s[i])]

\* sub in s
Contains(sub, s) ==
    \E i \in 1..(Len(s) - Len(sub) + 1) : SubSeq(s, i, i + Len(sub) - 1) = sub

goodbye == <<"g", "o", "o", "d", "b", "y", "e">>

Max(a, b) == IF a >= b THEN a ELSE b

\* The messages a customer types, and the agent's reply from the model.
Hi == <<"H", "i">>
GoodSpaceBye == <<"g", "o", "o", "d", " ", "b", "y", "e">>
OkGoodbye == <<"o", "k", " ", "g", "o", "o", "d", "b", "y", "e">>
GoodByeBang == <<"G", "o", "o", "d", "B", "y", "e", "!">>
Inputs == {Hi, GoodSpaceBye, OkGoodbye, GoodByeBang}
AgentReply == <<"o", "k">>

initial_state ==
    [messages |-> <<>>, turns |-> 0, satisfaction_score |-> 20, should_end |-> FALSE]

\* state["messages"].append(f"Customer: {input_message}")
AddCustomer(st, input_message) ==
    [st EXCEPT !.messages = Append(@, <<"Customer: ", input_message>>)]

\* process_message without the max(0, ...).
ProcessMessageNoClamp(st, input_message, response) ==
    LET turns == st.turns + 1
    IN  [messages |-> Append(AddCustomer(st, input_message).messages,
                             <<"Agent: ", response>>),
         turns |-> turns,
         satisfaction_score |-> 20 - turns,
         should_end |-> Contains(goodbye, Lower(input_message)) \/ turns >= 10]
\* process_message without the lower().
ProcessMessageCaseSensitive(st, input_message, response) ==
    LET turns == st.turns + 1
    IN  [messages |-> Append(AddCustomer(st, input_message).messages,
                             <<"Agent: ", response>>),
         turns |-> turns,
         satisfaction_score |-> Max(0, 20 - turns),
         should_end |-> Contains(goodbye, input_message) \/ turns >= 10]
\* process_message, when the model call returns response
ProcessMessage(st, input_message, response) ==
    LET turns == st.turns + 1
    IN  [messages |-> Append(AddCustomer(st, input_message).messages,
                             <<"Agent: ", response>>),
         turns |-> turns,
         satisfaction_score |-> Max(0, 20 - turns),
         should_end |-> Contains(goodbye, Lower(input_message)) \/ turns >= 10]

should_continue(st) == ~st.should_end

\* run_conversation: one iteration of the loop over the messages; the
\* conversation ends at the first state with should_end.
ConvStep ==
    /\ script = "context" /\ pc = "conv_loop" /\ remaining > 0
    /\ \E input_message \in Inputs :
          /\ state' = ProcessMessage(state, input_message, AgentReply)
          /\ last_input' = input_message
          /\ out' = out \o <<<<"\nCustomer: ", input_message>>,
                             <<"Agent: ", AgentReply>>,
                             <<"Satisfaction Score: ", state'.satisfaction_score>>>>
                        \o (IF state'.should_end
                            THEN <<<<"\nConversation ended.">>>> ELSE <<>>)
    /\ calls' = calls + 1
    /\ attempts' = attempts + 1
    /\ remaining' = remaining - 1
    /\ pc' = IF state'.should_end THEN "conv_done" ELSE "conv_loop"
    /\ UNCHANGED not_context

\* The model call raises: nothing in context.py catches it.
ConvRaise ==
    /\ script = "context" /\ pc = "conv_loop" /\ remaining > 0
    /\ \E input_message \in Inputs :
          /\ state' = AddCustomer(state, input_message)
          /\ out' = Append(out, <<"\nCustomer: ", input_message>>)
    /\ attempts' = attempts + 1
    /\ remaining' = remaining - 1
    /\ pc' = "crashed"
    /\ UNCHANGED <<not_context, last_input, calls>>

\* The list of messages is exhausted.
ConvExhausted ==
    /\ script = "context" /\ pc = "conv_loop" /\ remaining = 0
    /\ pc' = "conv_done"
    /\ UNCHANGED <<not_context, out, context_vars>>

\* A client that calls process_message itself, any number of times.
CallInputs == IF attempts < MaxVaried THEN Inputs ELSE {Hi}

CallProcess ==
    /\ script = "context_client" /\ pc = "client" /\ attempts < MaxCalls
    /\ \E input_message \in CallInputs :
          /\ state' = ProcessMessage(state, input_message, AgentReply)
          /\ last_input' = input_message
    /\ calls' = calls + 1
    /\ attempts' = attempts + 1
    /\ UNCHANGED <<not_context, pc, out, remaining>>

CallRaise ==
    /\ script = "context_client" /\ pc = "client" /\ attempts < MaxVaried
    /\ \E input_message \in CallInputs :
          state' = AddCustomer(state, input_message)
    /\ attempts' = attempts + 1
    /\ UNCHANGED <<not_context, pc, out, last_input, calls, remaining>>

ContextNext == ConvStep \/ ConvRaise \/ ConvExhausted \/ CallProcess \/ CallRaise


(***************************************************************************)
(* hotel_booking.py                                                        *)
(*                                                                         *)
(* A Python value that a claim is about carries its type.  A dict is a     *)
(* function from its keys.  A UserState object carries the number of the    *)
(* call that constructed it (oid): two objects are the same object exactly *)
(* when their oid is the same.  Time stamps are left out.                  *)
(***************************************************************************)
PyStr(s) == [type |-> "str", value |-> s]
PyNone == [type |-> "NoneType", value |-> ""]

UserIds == {"user1", "user2"}
Contents == {"I want to plan a trip to Japan next month"}

\* Intent: the values of the enumeration
IntentValues ==
    {"flight_booking", "hotel_booking", "general_inquiry", "itinerary_planning",
     "destination_info", "budget_planning", "unknown"}

\* What the model answers to the three prompts.
IntentReplies == {" Hotel_Booking\n", "I am not sure"}
InfoReplies == {"{\"destination_city\": \"Japan\"}", "null", "no JSON here"}
ResponseReplies == {"Where in Japan would you like to go?"}

\* str.strip().lower() on the replies above
StripLower(reply) ==
    CASE reply = " Hotel_Booking\n" -> "hotel_booking"
      [] reply = "I am not sure" -> "i am not sure"
      [] OTHER -> reply

\* Intent(intent_str), ValueError giving Intent.UNKNOWN
ParseIntent(reply) ==
    IF StripLower(reply) \in IntentValues THEN StripLower(reply) ELSE "unknown"

EmptyDict == [k \in {} |-> ""]

\* None where a dict is expected
NoneInfo == [type |-> "NoneType", value |-> EmptyDict]

\* json.loads with JSONDecodeError giving {}; "null" loads as None
LoadsInfo(reply) ==
    CASE reply = "{\"destination_city\": \"Japan\"}" ->
            [type |-> "dict", value |-> [k \in {"destination_city"} |-> "Japan"]]
      [] reply = "null" -> NoneInfo
      [] OTHER -> [type |-> "dict", value |-> EmptyDict]

\* dict.update
DictUpdate(d, e) ==
    [k \in DOMAIN d \cup DOMAIN e |-> IF k \in DOMAIN e THEN e[k] ELSE d[k]]

\* UserState.__init__
UserState(user_id, oid) ==
    [user_id |-> user_id, context |-> <<>>, current_intent |-> "None",
     collected_info |-> EmptyDict, oid |-> oid]

\* _create_user_if_not_exists without its test.
CreateUserAlways(us, user_id, oid) ==
    [u \in DOMAIN us \cup {user_id} |->
        IF u = user_id THEN UserState(user_id, oid) ELSE us[u]]
\* _create_user_if_not_exists
CreateUserIfNotExists(us, user_id, oid) ==
    IF user_id \in DOMAIN us
    THEN us
    ELSE [u \in DOMAIN us \cup {user_id} |->
            IF u = user_id THEN UserState(user_id, oid) ELSE us[u]]

apology == "I apologize, but I couldn't generate a proper response. Please try again."
error_reply ==
    "I encountered an error while processing your message. "
    \o "This might be due to a temporary issue. Please try again or "
    \o "rephrase your request."

NoCall ==
    [user_id |-> "", content |-> "", intent |-> "None",
     extracted_info |-> NoneInfo, response |-> "", raised |-> FALSE, final |-> "none"]

\* process_message up to the invocation of the graph: the user's state is
\* created when there is none, the message and the initial state are built.
ReceiveMessage ==
    /\ script = "hotel_booking" /\ pc = "travel_idle" /\ ncalls < MaxMessages
    /\ \E user_id \in UserIds, content \in Contents :
          /\ users' = CreateUserIfNotExists(users, user_id, ncalls + 1)
          /\ call' = [NoCall EXCEPT !.user_id = user_id, !.content = content]
    /\ ncalls' = ncalls + 1
    /\ ret' = PyNone
    /\ pc' = "intent_classifier"
    /\ UNCHANGED <<not_travel, out, handled>>

\* _classify_intent
ClassifyIntent ==
    /\ pc = "intent_classifier"
    /\ \E reply \in IntentReplies : call' = [call EXCEPT !.intent = ParseIntent(reply)]
    /\ pc' = "information_extractor"
    /\ UNCHANGED <<not_travel, out, handled, users, ret, ncalls>>

\* _extract_information
ExtractInformation ==
    /\ pc = "information_extractor"
    /\ \E reply \in InfoReplies : call' = [call EXCEPT !.extracted_info = LoadsInfo(reply)]
    /\ pc' = "context_manager"
    /\ UNCHANGED <<not_travel, out, handled, users, ret, ncalls>>

\* _manage_context, on the state of the user of the message
ManageContextOf(us, c) ==
    [us EXCEPT
        ![c.user_id].current_intent = c.intent,
        ![c.user_id].collected_info = DictUpdate(@, c.extracted_info.value),
        ![c.user_id].context = Append(@, [intent |-> c.intent, message |-> c.content,
                                          extracted_info |-> c.extracted_info.value])]

ManageContext ==
    /\ pc = "context_manager" /\ call.extracted_info.type = "dict"
    /\ users' = ManageContextOf(users, call)
    /\ pc' = "response_generator"
    /\ UNCHANGED <<not_travel, out, handled, call, ret, ncalls>>

\* collected_info.update(None) raises TypeError, after current_intent was set
ManageContextRaise ==
    /\ pc = "context_manager" /\ call.extracted_info.type # "dict"
    /\ users' = [users EXCEPT ![call.user_id].current_intent = call.intent]
    /\ call' = [call EXCEPT !.raised = TRUE]
    /\ pc' = "travel_except"
    /\ UNCHANGED <<not_travel, out, handled, ret, ncalls>>

\* What graph.invoke hands back is the framework's choice.
FinalKinds == {"dict_with_response", "dict_without_response", "not_a_dict"}

\* _generate_response and the end of graph.invoke
GenerateResponse ==
    /\ pc = "response_generator"
    /\ \E reply \in ResponseReplies, final \in FinalKinds :
          call' = [call EXCEPT !.response = reply, !.final = final]
    /\ pc' = "travel_return"
    /\ UNCHANGED <<not_travel, out, handled, users, ret, ncalls>>

\* A model call, or the framework around a node, raises.
NodeRaise ==
    /\ pc \in {"intent_classifier", "information_extractor", "context_manager",
               "response_generator"}
    /\ call' = [call EXCEPT !.raised = TRUE]
    /\ pc' = "travel_except"
    /\ UNCHANGED <<not_travel, out, handled, users, ret, ncalls>>

\* process_message: the test of final_state and the two returns
HandleResponse ==
    /\ pc = "travel_return"
    /\ ret' = IF call.final = "dict_with_response"
              THEN PyStr(call.response) ELSE PyStr(apology)
    /\ pc' = "travel_idle"
    /\ UNCHANGED <<not_travel, out, handled, users, call, ncalls>>

\* The handler without its return.
TravelExceptNoReturn ==
    /\ pc = "travel_except"
    /\ Stdout("Error details")
    /\ Handled("process_message", TRUE, "return_none")
    /\ ret' = PyNone
    /\ pc' = "travel_idle"
    /\ UNCHANGED <<not_travel, users, call, ncalls>>
\* process_message: except Exception as e: print(...); return (...)
TravelExcept ==
    /\ pc = "travel_except"
    /\ Stdout("Error details")
    /\ Handled("process_message", TRUE, "return_fallback_string")
    /\ ret' = PyStr(error_reply)
    /\ pc' = "travel_idle"
    /\ UNCHANGED <<not_travel, users, call, ncalls>>

TravelNext ==
    \/ ReceiveMessage \/ ClassifyIntent \/ ExtractInformation
    \/ ManageContext \/ ManageContextRaise \/ GenerateResponse \/ NodeRaise
    \/ HandleResponse \/ TravelExcept


(***************************************************************************)
(* basic_chatbot.py, chatbot-with-memory.py, chatbot-with-internet.py:     *)
(* the same loop around input() and stream_graph_updates.                  *)
(***************************************************************************)
ChatScripts == {"basic_chatbot", "chatbot-with-memory", "chatbot-with-internet"}

Quit == <<"q", "u", "i", "t">>
Exit == <<"e", "x", "i", "t">>
Q == <<"q">>
TypedLines == {<<"Q">>, <<"E", "x", "i", "t">>, <<"q", "u", "i", "t", "e">>, Hi}

\* user_input.lower() in ["quit", "exit", "q"]
IsQuit(user_input) == Lower(user_input) \in {Quit, Exit, Q}

ChatTyped == Cardinality({k \in 1..Len(out) : out[k][1] = "User: "})

\* input("User: ") returns a quit word: print("Goodbye!"); break
ChatQuit ==
    /\ script \in ChatScripts /\ pc = "chat_loop" /\ ChatTyped < MaxChatTurns
    /\ \E user_input \in TypedLines :
          /\ IsQuit(user_input)
          /\ out' = out \o <<<<"User: ", user_input>>, <<"Goodbye!">>>>
    /\ pc' = "chat_done"
    /\ UNCHANGED <<only_console, handled>>

\* input("User: ") returns something else: stream_graph_updates(user_input)
ChatTurn ==
    /\ script \in ChatScripts /\ pc = "chat_loop" /\ ChatTyped < MaxChatTurns
    /\ \E user_input \in TypedLines :
          /\ ~IsQuit(user_input)
          /\ out' = out \o <<<<"User: ", user_input>>, <<"Assistant:", AgentReply>>>>
    /\ pc' = "chat_loop"
    /\ UNCHANGED <<only_console, handled>>

\* input() raises (no terminal, end of input, interrupt): except: break
ChatInputRaise ==
    /\ script \in ChatScripts /\ pc = "chat_loop"
    /\ out' = Append(out, <<"User: ", <<>>>>)
    /\ Handled("chat_loop", FALSE, "break")
    /\ pc' = "chat_done"
    /\ UNCHANGED only_console

\* stream_graph_updates raises: except: break
ChatStreamRaise ==
    /\ script \in ChatScripts /\ pc = "chat_loop" /\ ChatTyped < MaxChatTurns
    /\ \E user_input \in TypedLines :
          /\ ~IsQuit(user_input)
          /\ out' = Append(out, <<"User: ", user_input>>)
    /\ Handled("chat_loop", FALSE, "break")
    /\ pc' = "chat_done"
    /\ UNCHANGED only_console

ChatNext == ChatQuit \/ ChatTurn \/ ChatInputRaise \/ ChatStreamRaise

(***************************************************************************)
(* langgraph_2.py: Agent.take_action                                       *)
(***************************************************************************)
\* self.tools: the names of the tools the agent was built with
tools == {"restaurant_rating"}
ToolNames == {"restaurant_rating", "web_search"}

ToolMessage(name, content) == [name |-> name, content |-> content]

\* One iteration of the loop: a tool the agent does not have
ToolUnknown ==
    /\ script = "langgraph_2" /\ pc = "take_action" /\ tool_calls # <<>>
    /\ Head(tool_calls) \notin tools
    /\ results' = Append(results, ToolMessage(Head(tool_calls), "Error: Unknown tool"))
    /\ tool_calls' = Tail(tool_calls)
    /\ UNCHANGED <<not_agent, pc, out, handled>>

\* The tool returns: result = str(tool_result)
ToolInvoke ==
    /\ script = "langgraph_2" /\ pc = "take_action" /\ tool_calls # <<>>
    /\ Head(tool_calls) \in tools
    /\ results' = Append(results, ToolMessage(Head(tool_calls), "Rating: 4.5/5.0"))
    /\ tool_calls' = Tail(tool_calls)
    /\ UNCHANGED <<not_agent, pc, out, handled>>

\* The tool raises: except Exception as e: result = f"Error executing ..."
ToolRaise ==
    /\ script = "langgraph_2" /\ pc = "take_action" /\ tool_calls # <<>>
    /\ Head(tool_calls) \in tools
    /\ results' = Append(results, ToolMessage(Head(tool_calls), "Error executing"))
    /\ tool_calls' = Tail(tool_calls)
    /\ Handled("take_action", FALSE, "result_string")
    /\ UNCHANGED <<not_agent, pc, out>>

\* return {"messages": results}
TakeActionReturn ==
    /\ script = "langgraph_2" /\ pc = "take_action" /\ tool_calls = <<>>
    /\ pc' = "agent_llm"
    /\ UNCHANGED <<not_agent, agent_vars, out, handled>>

AgentNext == ToolUnknown \/ ToolInvoke \/ ToolRaise \/ TakeActionReturn


(***************************************************************************)
(* react_2.py: the hand-rolled ReAct loop                                  *)
(*                                                                         *)
(* A reply of the model is a sequence of characters, "\n" between its      *)
(* lines.  A prompt is a record: the question, or the text "Observation: " *)
(* with the rating the action returned.                                    *)
(***************************************************************************)
Digits == {"0", "1", "2", "3", "4", "5", "6", "7", "8", "9"}

\* \w
WordChars ==
    {UpperCase[i] : i \in 1..Len(UpperCase)} \cup {LowerCase[i] : i \in 1..Len(LowerCase)}
    \cup Digits \cup {"_"}

RECURSIVE SplitAt(_, _, _)
\* result.split('\n'): the pieces between newlines, empty ones included
SplitAt(s, k, cur) ==
    IF k > Len(s)
    THEN <<cur>>
    ELSE IF s[k] = NL
         THEN <<cur>> \o SplitAt(s, k + 1, <<>>)
         ELSE SplitAt(s, k + 1, Append(cur, s[k]))

Split(s) == SplitAt(s, 1, <<>>)

ActionPrefix ==
    <<"A", "c", "t", "i", "o", "n", ":", " ">>

RECURSIVE WordRun(_, _)
\* The length of the longest run of \w characters of line from position k.
WordRun(line, k) ==
    IF k <= Len(line) /\ line[k] \in WordChars THEN 1 + WordRun(line, k + 1) ELSE 0

NoMatch == [matched |-> FALSE, action |-> <<>>, action_input |-> <<>>]

\* action_re.match(line) for action_re = '^Action: (\w+): (.*)$': the groups.
\* Only the longest run of \w can be followed by ': ', so that is group 1.
action_re_match(line) ==
    LET p == Len(ActionPrefix)
        n == WordRun(line, p + 1)
    IN  IF /\ Len(line) >= p + n + 2
           /\ SubSeq(line, 1, p) = ActionPrefix
           /\ n >= 1
           /\ line[p + n + 1] = ":"
           /\ line[p + n + 2] = " "
           /\ \A k \in (p + n + 3)..Len(line) : line[k] # NL
        THEN [matched |-> TRUE,
              action |-> SubSeq(line, p + 1, p + n),
              action_input |-> SubSeq(line, p + n + 3, Len(line))]
        ELSE NoMatch

\* [action_re.match(a) for a in result.split('\n') if action_re.match(a)]
Matches(result) ==
    LET lines == Split(result)
        found == [k \in 1..Len(lines) |-> action_re_match(lines[k])]
    IN  SelectSeq(found, LAMBDA m : m.matched)

\* The match whose action runs, taken from the end of the list.
LastMatch(matches) == matches[Len(matches)]
\* actions[0]
FirstMatch(matches) == matches[1]

get_rating ==
    <<"g", "e", "t", "_", "r", "a", "t", "i", "n", "g">>

known_actions == {get_rating}

PizzaPalace ==
    <<"P", "i", "z", "z", "a", " ", "P", "a", "l", "a", "c", "e">>
BurgerBarn ==
    <<"B", "u", "r", "g", "e", "r", " ", "B", "a", "r", "n">>
SushiSupreme ==
    <<"S", "u", "s", "h", "i", " ", "S", "u", "p", "r", "e", "m", "e">>

\* get_restaurant_rating: ratings.get(name, {"rating": 0, "reviews": 0})
get_restaurant_rating(name) ==
    CASE name = PizzaPalace -> [rating |-> "4.5", reviews |-> 230]
      [] name = BurgerBarn -> [rating |-> "4.2", reviews |-> 185]
      [] name = SushiSupreme -> [rating |-> "4.8", reviews |-> 320]
      [] OTHER -> [rating |-> "0", reviews |-> 0]

\* The question query is called with, and f"Observation: {observation}"
Question ==
    [text |-> "which resturant have better rating, Pizza Palace or Burger Barn?",
     rating |-> "", reviews |-> 0]
Observation(observation) ==
    [text |-> "Observation: ", rating |-> observation.rating,
     reviews |-> observation.reviews]

\* What the model may answer.
ReplyAnswer ==
    <<"A", "n", "s", "w", "e", "r", ":", " ", "P", "i", "z", "z", "a", " ",
      "P", "a", "l", "a", "c", "e">>
ReplyAction ==
    <<"T", "h", "o", "u", "g", "h", "t", ":", " ", "c", "h", "e", "c", "k",
      "\n", "A", "c", "t", "i", "o", "n", ":", " ", "g", "e", "t", "_",
      "r", "a", "t", "i", "n", "g", ":", " ", "P", "i", "z", "z", "a", " ",
      "P", "a", "l", "a", "c", "e", "\n", "P", "A", "U", "S", "E">>
ReplyTwo ==
    <<"A", "c", "t", "i", "o", "n", ":", " ", "g", "e", "t", "_", "r", "a",
      "t", "i", "n", "g", ":", " ", "B", "u", "r", "g", "e", "r", " ", "B",
      "a", "r", "n", "\n", "A", "c", "t", "i", "o", "n", ":", " ", "s",
      "e", "a", "r", "c", "h", ":", " ", "p", "i", "z", "z", "a", "\n",
      "P", "A", "U", "S", "E">>
ReplyColons ==
    <<"A", "c", "t", "i", "o", "n", ":", " ", "g", "e", "t", "_", "r", "a",
      "t", "i", "n", "g", ":", " ", "a", ":", " ", "b", "\n">>
ReplyUnknown ==
    <<"T", "h", "o", "u", "g", "h", "t", ":", " ", "a", "s", "k", "\n",
      "A", "c", "t", "i", "o", "n", ":", " ", "s", "e", "a", "r", "c", "h",
      ":", " ", "p", "i", "z", "z", "a", "\n", "P", "A", "U", "S", "E">>
ReplyIndented ==
    <<" ", "A", "c", "t", "i", "o", "n", ":", " ", "g", "e", "t", "_", "r",
      "a", "t", "i", "n", "g", ":", " ", "P", "i", "z", "z", "a", " ", "P",
      "a", "l", "a", "c", "e">>
ReplySpaced ==
    <<"A", "c", "t", "i", "o", "n", ":", " ", "g", "e", "t", " ", "r", "a",
      "t", "i", "n", "g", ":", " ", "P", "i", "z", "z", "a", " ", "P", "a",
      "l", "a", "c", "e">>

Replies ==
    {ReplyAnswer, ReplyAction, ReplyTwo, ReplyColons, ReplyUnknown, ReplyIndented,
     ReplySpaced}

\* The list actions of every reply the model may give.
actions == [result \in Replies |-> Matches(result)]

\* The messages of RestaurantAgent: content is a prompt or a reply.
SystemPrompt == [text |-> "prompt", rating |-> "", reviews |-> 0]
NoPrompt == [text |-> "", rating |-> "", reviews |-> 0]
SystemMessage == [role |-> "system", prompt |-> SystemPrompt, reply |-> <<>>]
UserMessage(text) == [role |-> "user", prompt |-> text, reply |-> <<>>]
AssistantMessage(result) == [role |-> "assistant", prompt |-> NoPrompt, reply |-> result]

\* RestaurantAgent.__call__: the prompt and the model's answer join messages
BotCall(text, result) ==
    bot_messages' = bot_messages \o <<UserMessage(text), AssistantMessage(result)>>

\* One iteration: the reply's first action is known; it runs and its result
\* is the next prompt.
QueryAct ==
    /\ script = "react_2" /\ pc = "query_loop" /\ turn < max_turns
    /\ \E result \in Replies :
          /\ actions[result] # <<>>
          /\ FirstMatch(actions[result]).action \in known_actions
          /\ BotCall(next_prompt, result)
          /\ out' = Append(out, result)
          /\ ran' = Append(ran, [action |-> FirstMatch(actions[result]).action,
                                 action_input |-> FirstMatch(actions[result]).action_input])
          /\ next_prompt' = Observation(
                 get_restaurant_rating(FirstMatch(actions[result]).action_input))
    /\ turn' = turn + 1
    /\ UNCHANGED <<not_react, pc, max_turns>>

\* One iteration: the reply's first action is not known: raise Exception
QueryUnknown ==
    /\ script = "react_2" /\ pc = "query_loop" /\ turn < max_turns
    /\ \E result \in Replies :
          /\ actions[result] # <<>>
          /\ FirstMatch(actions[result]).action \notin known_actions
          /\ BotCall(next_prompt, result)
          /\ out' = Append(out, result)
    /\ pc' = "query_raised"
    /\ UNCHANGED <<not_react, max_turns, turn, next_prompt, ran>>

\* One iteration: no line of the reply is an action: return
QueryReturn ==
    /\ script = "react_2" /\ pc = "query_loop" /\ turn < max_turns
    /\ \E result \in Replies :
          /\ actions[result] = <<>>
          /\ BotCall(next_prompt, result)
          /\ out' = Append(out, result)
    /\ pc' = "query_returned"
    /\ UNCHANGED <<not_react, max_turns, turn, next_prompt, ran>>

\* The model call raises: the prompt has joined messages, nothing catches it
QueryModelRaise ==
    /\ script = "react_2" /\ pc = "query_loop" /\ turn < max_turns
    /\ bot_messages' = Append(bot_messages, UserMessage(next_prompt))
    /\ pc' = "query_model_error"
    /\ UNCHANGED <<not_react, out, max_turns, turn, next_prompt, ran>>

\* range(max_turns) is exhausted: the function ends
QueryExhausted ==
    /\ script = "react_2" /\ pc = "query_loop" /\ turn >= max_turns
    /\ pc' = "query_returned"
    /\ UNCHANGED <<not_react, out, react_vars>>

ReactNext == QueryAct \/ QueryUnknown \/ QueryReturn \/ QueryModelRaise \/ QueryExhausted

\* The files at start-up: absent or empty, or what earlier runs left.
InitFiles == {RunContent(n) : n \in 0..MaxOldLines}

PersistIdle ==
    /\ files = [p \in Paths |-> <<>>]
    /\ files0 = files
    /\ inflight = <<>>
    /\ idx = 0
    /\ message = ""
    /\ exit_code = -1

ContextIdle ==
    /\ state = initial_state
    /\ last_input = <<>>
    /\ calls = 0
    /\ attempts = 0
    /\ remaining = 0

\* TravelAssistant.__init__: self.users = {}
TravelIdle ==
    /\ users = [u \in {} |-> UserState(u, 0)]
    /\ call = NoCall
    /\ ret = PyNone
    /\ ncalls = 0

AgentIdle ==
    /\ tool_calls = <<>>
    /\ results = <<>>

\* bot = RestaurantAgent(prompt); next_prompt = question
ReactIdle ==
    /\ max_turns = 0
    /\ turn = 0
    /\ next_prompt = Question
    /\ bot_messages = <<SystemMessage>>
    /\ ran = <<>>

ConsoleIdle == out = <<>> /\ handled = <<>>

InitPersist ==
    /\ script = "streaming_persistenc" /\ pc = "main"
    /\ ReactIdle /\ ConsoleIdle /\ ContextIdle /\ TravelIdle /\ AgentIdle
    /\ files \in [Paths -> InitFiles]
    /\ files0 = files
    /\ inflight = <<>>
    /\ idx = 0
    /\ message = ""
    /\ exit_code = -1

\* run_conversation(messages) for any list of up to MaxConvLen messages
InitContext ==
    /\ script = "context" /\ pc = "conv_loop"
    /\ ReactIdle /\ ConsoleIdle /\ PersistIdle /\ TravelIdle /\ AgentIdle
    /\ state = initial_state
    /\ last_input = <<>>
    /\ calls = 0
    /\ attempts = 0
    /\ remaining \in 0..MaxConvLen

InitContextClient ==
    /\ script = "context_client" /\ pc = "client"
    /\ ReactIdle /\ ConsoleIdle /\ PersistIdle /\ ContextIdle /\ TravelIdle /\ AgentIdle

InitTravel ==
    /\ script = "hotel_booking" /\ pc = "travel_idle"
    /\ ReactIdle /\ ConsoleIdle /\ PersistIdle /\ ContextIdle /\ TravelIdle /\ AgentIdle

InitChat ==
    /\ script \in ChatScripts /\ pc = "chat_loop"
    /\ ReactIdle /\ ConsoleIdle /\ PersistIdle /\ ContextIdle /\ TravelIdle /\ AgentIdle

\* take_action on a last message with up to MaxToolCalls tool calls
InitAgent ==
    /\ script = "langgraph_2" /\ pc = "take_action"
    /\ ReactIdle /\ ConsoleIdle /\ PersistIdle /\ ContextIdle /\ TravelIdle
    /\ tool_calls \in UNION {[1..n -> ToolNames] : n \in 0..MaxToolCalls}
    /\ results = <<>>

\* query(question, max_turns) for any max_turns up to MaxQueryTurns
InitReact ==
    /\ script = "react_2" /\ pc = "query_loop"
    /\ ConsoleIdle /\ PersistIdle /\ ContextIdle /\ TravelIdle /\ AgentIdle
    /\ max_turns \in 0..MaxQueryTurns
    /\ turn = 0
    /\ next_prompt = Question
    /\ bot_messages = <<SystemMessage>>
    /\ ran = <<>>

Init ==
    \/ InitPersist \/ InitContext \/ InitContextClient
    \/ InitTravel \/ InitChat \/ InitAgent \/ InitReact

Next == PersistNext \/ ContextNext \/ TravelNext \/ ChatNext \/ AgentNext \/ ReactNext

Spec == Init /\ [][Next]_vars

\* asyncio.run drives main to completion: every enabled step is taken.
FairSpec == Spec /\ WF_vars(PersistNext)

\* The loop of query is sequential code: an iteration that can run does run
\* (a model call returns or raises).
FairReactSpec == Spec /\ WF_vars(ReactNext)

(***************************************************************************)
(* Properties of the persistence demo.                                     *)
(***************************************************************************)
IsPrefix(s, t) == Len(s) <= Len(t) /\ SubSeq(t, 1, Len(s)) = s
Printed(item) == \E k \in 1..Len(out) : out[k] = <<item>>
Ran(handler) == \E k \in 1..Len(handled) : handled[k].handler = handler
Persist == script = "streaming_persistenc"
Returned(c) == pc = "exited" /\ exit_code = c
TenMessages ==
    <<"Message 0", "Message 1", "Message 2", "Message 3", "Message 4",
      "Message 5", "Message 6", "Message 7", "Message 8", "Message 9">>
FirstMessages(n) == SubSeq(TenMessages, 1, n)
NewLines(p) == SubSeq(Lines(files[p]), Len(Lines(files0[p])) + 1, Len(Lines(files[p])))
KeepsOld(p) == IsPrefix(Lines(files0[p]), Lines(files[p]))

\* C1: starting from an empty file, the sync file (resp. the async file) is
\* at every moment a prefix of 'Message 0' .. 'Message 9', and holds exactly
\* these ten lines in this order once the loop that writes it has returned.
C1_GenerationOrder ==
    Persist =>
        /\ files0["sync_data.txt"] = <<>> =>
              /\ IsPrefix(Lines(files["sync_data.txt"]), TenMessages)
              /\ Printed("Data saved synchronously!") =>
                    Lines(files["sync_data.txt"]) = TenMessages
        /\ files0["async_data.txt"] = <<>> =>
              /\ IsPrefix(Lines(files["async_data.txt"]), TenMessages)
              /\ Printed("Data saved asynchronously!") =>
                    Lines(files["async_data.txt"]) = TenMessages

C1_Witness ==
    /\ Persist /\ pc = "exited"
    /\ files0["sync_data.txt"] = <<>> /\ files0["async_data.txt"] = <<>>
    /\ Lines(files["sync_data.txt"]) = TenMessages
    /\ Lines(files["async_data.txt"]) = TenMessages

SyncPhase == pc \in {"main", "sync_next", "sync_open", "sync_write", "sync_except"}

\* C2: the two loops write to different files, at most one save is in
\* flight at any time, the synchronous loop touches only the sync file, and
\* it has appended all ten of its lines before the asynchronous loop opens
\* or appends to the async file.
C2_NoContention ==
    Persist =>
        /\ sync_storage # async_storage
        /\ Len(inflight) <= 1
        /\ SyncPhase =>
              /\ files[async_path] = files0[async_path]
              /\ \A k \in 1..Len(inflight) : inflight[k].path = sync_path
        /\ ~SyncPhase =>
              \A k \in 1..Len(inflight) : inflight[k].path = async_path
        /\ (\/ files[async_path] # files0[async_path]
            \/ \E k \in 1..Len(inflight) : inflight[k].path = async_path) =>
              /\ Printed("Data saved synchronously!")
              /\ NewLines(sync_path) = TenMessages

C2_Witness ==
    /\ Persist /\ pc = "async_write" /\ idx >= 2
    /\ Len(inflight) = 1 /\ inflight[1].path = "async_data.txt"

\* One step of the program, as far as the files are concerned: a file either
\* stays as it is or gets exactly one new line, the data of a save in
\* flight followed by a newline, after everything it held.
C3_Step ==
    /\ \A p \in Paths :
          \/ files'[p] = files[p]
          \/ \E k \in 1..Len(inflight) :
                /\ inflight[k].path = p
                /\ files'[p] = files[p] \o <<inflight[k].data, NL>>
                /\ Lines(files'[p]) = Append(Lines(files[p]), inflight[k].data)
    /\ (pc \in {"sync_write", "async_write"} /\ pc' \in {"sync_next", "async_gen"}) =>
          \E p \in Paths : Len(Lines(files'[p])) = Len(Lines(files[p])) + 1

C3_Rerun ==
    (Persist /\ Returned(0)) =>
        \A p \in Paths : Lines(files[p]) = Lines(files0[p]) \o TenMessages

\* C3: the file is append-only with one message per line: a save that
\* returns leaves the lines of the file as they were and adds one line, its
\* data, at the end; a run on an existing file ends with the old lines
\* followed by the ten new ones.
C3_AppendOnly == [][C3_Step]_vars /\ []C3_Rerun

C3_Witness ==
    /\ Persist /\ Returned(0)
    /\ Len(Lines(files0["sync_data.txt"])) = 2
    /\ Len(Lines(files["sync_data.txt"])) = 12

NoIOError == handled = <<>>

C9_Result ==
    (Persist /\ pc = "exited" /\ NoIOError) =>
        /\ exit_code = 0
        /\ NewLines(sync_path) = TenMessages /\ KeepsOld(sync_path)
        /\ NewLines(async_path) = TenMessages /\ KeepsOld(async_path)
        /\ Cardinality({k \in 1..Len(out) : out[k] \in
                          {<<"Processing: " \o TenMessages[i]>> : i \in 1..10}}) = 20
        /\ \E i, j \in 1..Len(out) :
              /\ i < j
              /\ out[i] = <<"Data saved synchronously!">>
              /\ out[j] = <<"\nAsynchronous Streaming:">>

\* C9: main terminates; when no I/O error occurred it ran the synchronous
\* loop and then the asynchronous loop, each processed ten messages and
\* appended ten lines to its own file, and main returned 0.
C9_Terminates == (Persist => <>(pc = "exited")) /\ []C9_Result

C9_Witness ==
    /\ Persist /\ Returned(0) /\ NoIOError
    /\ Len(out) = 24

SyncFailed == Ran("synchronous_stream_and_persist")
AsyncFailed == Ran("asynchronous_stream_and_persist")

\* C10: a save that fails in the synchronous loop is printed and re-raised:
\* the failed message and the later ones are not saved, the asynchronous
\* loop is never started, the async file is untouched and main returns 1;
\* a save that fails in the asynchronous loop leaves the lines appended so
\* far in the file and main returns 1.
C10_SaveFails ==
    Persist =>
        /\ SyncFailed =>
              /\ pc \in {"main_except", "exited"}
              /\ files[async_path] = files0[async_path]
              /\ ~Printed("\nAsynchronous Streaming:")
              /\ Printed("Error in synchronous processing")
              /\ KeepsOld(sync_path)
              /\ NewLines(sync_path) = FirstMessages(idx - 1)
              /\ inflight = <<>>
              /\ pc = "exited" =>
                    /\ exit_code = 1
                    /\ out[Len(out)] = <<"Error in main execution">>
        /\ AsyncFailed =>
              /\ pc \in {"main_except", "exited"}
              /\ Printed("Error in asynchronous processing")
              /\ KeepsOld(async_path)
              /\ NewLines(async_path) = FirstMessages(idx - 1)
              /\ NewLines(sync_path) = TenMessages
              /\ pc = "exited" => exit_code = 1
        /\ Returned(1) => (SyncFailed \/ AsyncFailed)

C10_Witness ==
    /\ Persist /\ SyncFailed /\ Returned(1)
    /\ Len(NewLines("sync_data.txt")) = 3

C10_WitnessAsync ==
    /\ Persist /\ AsyncFailed /\ Returned(1)
    /\ Len(NewLines("async_data.txt")) = 3

(***************************************************************************)
(* Properties of the catch-all handlers and of the travel assistant.       *)
(***************************************************************************)
\* C4 as stated: every catch-all block that ran printed a message and then
\* returned a fallback string or re-raised.
C4_Uniform ==
    \A k \in 1..Len(handled) :
        /\ handled[k].printed
        /\ handled[k].outcome \in {"return_fallback_string", "reraise"}

ErrorPrints ==
    {k \in 1..Len(out) :
        out[k] \in {<<"Error in synchronous processing">>,
                    <<"Error in asynchronous processing">>,
                    <<"Error in main execution">>, <<"Error details">>, <<"Error">>}}

\* C4, amended: every catch-all block ends the failed operation in the one
\* way its script fixes.  The stream functions of the persistence demo print
\* and re-raise, its main prints and returns the exit code 1, the travel
\* assistant's process_message prints and returns its fallback string, the
\* agent's take_action prints nothing and makes the error text the tool's
\* result, and the chat loops print nothing and leave the loop.
C4_PerScript ==
    /\ \A k \in 1..Len(handled) :
          LET h == handled[k]
          IN  CASE h.handler \in {"synchronous_stream_and_persist",
                                  "asynchronous_stream_and_persist"} ->
                      /\ script = "streaming_persistenc"
                      /\ h.printed /\ h.outcome = "reraise"
                      /\ pc \in {"main_except", "exited"}
                []  h.handler = "main" ->
                      /\ script = "streaming_persistenc"
                      /\ h.printed /\ h.outcome = "return_exit_code"
                      /\ k = 2 /\ pc = "exited" /\ exit_code = 1
                []  h.handler = "process_message" ->
                      /\ script = "hotel_booking"
                      /\ h.printed /\ h.outcome = "return_fallback_string"
                []  h.handler = "take_action" ->
                      /\ script = "langgraph_2"
                      /\ ~h.printed /\ h.outcome = "result_string"
                      /\ pc # "agent_crashed"
                      /\ \E i \in 1..Len(results) : results[i].content = "Error executing"
                []  h.handler = "chat_loop" ->
                      /\ script \in ChatScripts
                      /\ ~h.printed /\ h.outcome = "break"
                      /\ k = 1 /\ pc = "chat_done"
                []  OTHER -> FALSE
    /\ script \in {"streaming_persistenc", "hotel_booking"} =>
          Cardinality(ErrorPrints) = Len(handled)
    /\ script \notin {"streaming_persistenc", "hotel_booking"} => ErrorPrints = {}
    /\ (script = "streaming_persistenc" /\ pc = "exited" /\ handled # <<>>) =>
          handled[Len(handled)].handler = "main"
    /\ (script = "hotel_booking" /\ pc = "travel_idle" /\ call.raised) =>
          /\ handled # <<>>
          /\ ret = PyStr(error_reply)

C4_Witness ==
    /\ script = "basic_chatbot" /\ pc = "chat_done"
    /\ Len(handled) = 1 /\ ~handled[1].printed /\ handled[1].outcome = "break"
    /\ Len(out) = 3

C4_WitnessMain ==
    /\ script = "streaming_persistenc" /\ pc = "exited"
    /\ Len(handled) = 2 /\ handled[2].outcome = "return_exit_code"

Travel == script = "hotel_booking"

\* C5: process_message never lets an exception out and always returns a
\* string: the generated response when the final state is a dict with
\* 'response', the apology when it is not, and the 'I encountered an error'
\* text when a step raised.
C5_AlwaysReturnsString ==
    Travel =>
        /\ pc \in {"travel_idle", "intent_classifier", "information_extractor",
                   "context_manager", "response_generator", "travel_return",
                   "travel_except"}
        /\ (pc = "travel_idle" /\ ncalls > 0) =>
              /\ ret.type = "str"
              /\ call.raised =>
                    ret.value = "I encountered an error while processing your message. This might be due to a temporary issue. Please try again or rephrase your request."
              /\ (~call.raised /\ call.final = "dict_with_response") =>
                    ret.value = call.response /\ call.response \in ResponseReplies
              /\ (~call.raised /\ call.final # "dict_with_response") =>
                    ret.value = "I apologize, but I couldn't generate a proper response. Please try again."

C5_Witness ==
    /\ Travel /\ pc = "travel_idle" /\ ncalls = 2 /\ call.raised
    /\ call.extracted_info.type = "NoneType"
    /\ ret.type = "str"

C5_WitnessResponse ==
    /\ Travel /\ pc = "travel_idle" /\ ncalls = 2 /\ ~call.raised
    /\ ret.value = "Where in Japan would you like to go?"

C5_WitnessApology ==
    /\ Travel /\ pc = "travel_idle" /\ ncalls = 1 /\ call.final = "not_a_dict"
    /\ ret.value = apology

\* The user a step works for: the user of the call in progress after it.
C6_Step ==
    Travel =>
        /\ \A u \in DOMAIN users :
              /\ u \in DOMAIN users'
              /\ users'[u].oid = users[u].oid
              /\ users'[u].user_id = u
              /\ u # call'.user_id => users'[u] = users[u]
        /\ \A u \in DOMAIN users' \ DOMAIN users :
              /\ u = call'.user_id
              /\ pc = "travel_idle"
              /\ users'[u].context = <<>>
              /\ users'[u].collected_info = EmptyDict
              /\ users'[u].current_intent = "None"
        /\ (pc = "travel_idle" /\ pc' # "travel_idle") => call'.user_id \in DOMAIN users'

\* C6: a process_message call for one user leaves the UserState of every
\* other user as it is; a user's UserState is created by their first
\* message, empty, and is the same object ever after.
C6_UserIsolation == [][C6_Step]_vars

C6_Witness ==
    /\ Travel /\ pc = "travel_idle" /\ ncalls = 3
    /\ DOMAIN users = {"user1", "user2"}
    /\ Len(users["user1"].context) = 2 /\ Len(users["user2"].context) = 1
    /\ users["user1"].oid = 1 /\ users["user2"].oid = 2
    /\ call.user_id = "user1"

C6_WitnessSameUser ==
    /\ Travel /\ pc = "travel_idle" /\ ncalls = 2
    /\ DOMAIN users = {"user1"}
    /\ Len(users["user1"].context) = 2 /\ users["user1"].oid = 1

(***************************************************************************)
(* Properties of the customer-service script.  Scores are in half points:  *)
(* 20 is the score 10, and 0.5 * turns half-points is turns.               *)
(***************************************************************************)
Context == script \in {"context", "context_client"}

C7_Score ==
    Context =>
        /\ state.turns = calls
        /\ state.satisfaction_score = (IF calls >= 20 THEN 0 ELSE 20 - calls)
        /\ 0 <= state.satisfaction_score /\ state.satisfaction_score <= 20

C7_Step == state'.satisfaction_score <= state.satisfaction_score

\* C7: from turns = 0 and score = 10, after any number of process_message
\* calls turns is the number of calls that returned, the score is
\* max(0, 10 - 0.5 * turns), so it lies between 0 and 10, and no call
\* increases it.
C7_ScoreRange == []C7_Score /\ [][C7_Step]_vars

C7_Witness ==
    /\ script = "context_client"
    /\ calls = 21 /\ state.turns = 21 /\ state.satisfaction_score = 0

\* The inputs that contain 'goodbye' when case is ignored.
GoodbyeInputs ==
    {<<"o", "k", " ", "g", "o", "o", "d", "b", "y", "e">>,
     <<"G", "o", "o", "d", "B", "y", "e", "!">>}

C8_ShouldEnd ==
    Context =>
        /\ calls > 0 =>
              state.should_end = (last_input \in GoodbyeInputs \/ state.turns >= 10)
        /\ should_continue(state) = ~state.should_end
        /\ script = "context" =>
              /\ calls <= 10
              /\ pc = "conv_loop" => ~state.should_end
              /\ state.should_end => pc = "conv_done"

C8_Step ==
    (script = "context" /\ state.should_end) => UNCHANGED <<state, calls, attempts>>

\* C8: after each process_message call should_end is true exactly when the
\* input contains 'goodbye' in any case or turns >= 10, should_continue is
\* its negation, and run_conversation processes nothing after the first
\* call that leaves should_end true: at most 10 messages per conversation.
C8_ConversationEnds == []C8_ShouldEnd /\ [][C8_Step]_vars

C8_Witness ==
    /\ script = "context" /\ pc = "conv_done"
    /\ calls = 10 /\ remaining = 2
    /\ state.should_end /\ last_input = <<"H", "i">>

C8_WitnessGoodbye ==
    /\ script = "context" /\ pc = "conv_done"
    /\ calls = 2 /\ remaining > 0
    /\ state.should_end /\ last_input = <<"G", "o", "o", "d", "B", "y", "e", "!">>

(***************************************************************************)
(* react_2.py: the ReAct loop                                              *)
(***************************************************************************)
\* The replies of the model and the prompts it was sent, in order.
ReactReplies ==
    LET said == SelectSeq(bot_messages, LAMBDA m : m.role = "assistant")
    IN  [k \in 1..Len(said) |-> said[k].reply]
ReactPrompts ==
    LET sent == SelectSeq(bot_messages, LAMBDA m : m.role = "user")
    IN  [k \in 1..Len(sent) |-> sent[k].prompt]
\* Every __call__ adds one user message and then calls the model once.
ModelCalls == Len(ReactPrompts)
QueryEnded == pc \in {"query_returned", "query_raised", "query_model_error"}

\* The replies by what a reader sees in them: no action line at the start of
\* a line, a first action line naming get_rating, a first action line naming
\* something else.
C11_NoAction == {ReplyAnswer, ReplyIndented, ReplySpaced}
C11_Known == {ReplyAction, ReplyTwo, ReplyColons}
C11_Unknown == {ReplyUnknown}

\* The input of the first action line of a reply, and its rating.
C11_Input(reply) ==
    CASE reply = ReplyAction -> PizzaPalace
      [] reply = ReplyTwo -> BurgerBarn
      [] reply = ReplyColons -> <<"a", ":", " ", "b">>
C11_Observation(reply) ==
    CASE reply = ReplyAction ->
             [text |-> "Observation: ", rating |-> "4.5", reviews |-> 230]
      [] reply = ReplyTwo ->
             [text |-> "Observation: ", rating |-> "4.2", reviews |-> 185]
      [] reply = ReplyColons ->
             [text |-> "Observation: ", rating |-> "0", reviews |-> 0]

\* C11 as stated: query makes at most max_turns model calls, and a reply
\* either has no action line, and query returns, or has its first action run
\* and "Observation: <result>" made the next prompt.
C11_AsStated ==
    script = "react_2" =>
        LET n == Len(ReactReplies)
        IN  /\ ModelCalls <= max_turns
            /\ n > 0 =>
                  \/ ReactReplies[n] \in C11_NoAction /\ pc = "query_returned"
                  \/ /\ ReactReplies[n] \notin C11_NoAction
                     /\ Len(ran) = n
                     /\ next_prompt.text = "Observation: "

\* What holds of query in every state.
C11_LoopInv ==
    script = "react_2" =>
        LET n == Len(ReactReplies)
        IN  /\ ModelCalls <= max_turns
            /\ n <= ModelCalls
            /\ (n < ModelCalls) = (pc = "query_model_error")
            /\ \A k \in 1..ModelCalls :
                  ReactPrompts[k] =
                      IF k = 1 THEN Question ELSE C11_Observation(ReactReplies[k - 1])
            /\ \A k \in 1..(n - 1) : ReactReplies[k] \in C11_Known
            /\ Len(ran) = Cardinality({k \in 1..n : ReactReplies[k] \in C11_Known})
            /\ \A k \in 1..Len(ran) :
                  ran[k] = [action |-> get_rating,
                            action_input |-> C11_Input(ReactReplies[k])]
            /\ n > 0 =>
                  /\ ReactReplies[n] \in C11_NoAction => pc = "query_returned"
                  /\ ReactReplies[n] \in C11_Unknown =>
                        pc = "query_raised" /\ Len(ran) = n - 1
                  /\ ReactReplies[n] \in C11_Known =>
                        /\ next_prompt = C11_Observation(ReactReplies[n])
                        /\ pc \in {"query_loop", "query_model_error", "query_returned"}
                        /\ pc = "query_returned" => n = max_turns
            /\ pc = "query_raised" => n > 0 /\ ReactReplies[n] \in C11_Unknown
            /\ pc = "query_returned" /\ n = 0 => max_turns = 0

\* C11: query(question, max_turns) ends after at most max_turns model calls
\* whatever the model replies.  It returns as soon as a reply has no line
\* matching 'Action: <name>: <input>'; it raises an Exception, running
\* nothing, as soon as the first matching line of a reply names an action
\* that is not known; otherwise it runs only the first matching action of
\* the reply and sends 'Observation: <result>' as the next prompt, and it
\* returns after max_turns such replies.
C11_Terminates ==
    /\ []C11_LoopInv
    /\ (script = "react_2") => <>QueryEnded

\* A reply with two action lines had only its first action run, and a later
\* reply naming an unknown action made query raise.
C11_Witness ==
    /\ script = "react_2" /\ pc = "query_raised"
    /\ Len(ReactReplies) = 2
    /\ ReactReplies[1] = ReplyTwo
    /\ ReactReplies[2] = ReplyUnknown
    /\ ran = <<[action |-> get_rating, action_input |-> BurgerBarn]>>
    /\ ModelCalls = 2

====
